---- MODULE Spec2Model ----
(***************************************************************************)
(* Model of src/src/App.js (Hacker Stories): the stories reducer, the URL  *)
(* helpers, and the App component's handlers, effects and in-flight GETs.  *)
(* Strings are sequences of one-character strings so that building and     *)
(* parsing a URL are computed, not assumed.                                *)
(***************************************************************************)
EXTENDS Integers, Sequences, FiniteSets, TLC

VARIABLES
  searchTerm,      \* App: value of useSemiPersistentState('search', 'React')
  localStorage,    \* browser storage under key 'search': <<>> if absent, else <<value>>
  urls,            \* App: URL history (React.useState)
  stories,         \* App: reducer state {data, page, isLoading, isError}
  requests,        \* GETs issued by handleFetchStories and not yet settled
  effects,         \* effects scheduled by the last render and not yet run
  thrown,          \* the reducer threw (the component tree is gone)
  lastAction,      \* history: the action handed to the reducer last
  orig,            \* history: data as of the last action that was not a removal
  removed,         \* history: objectIDs removed since then
  fetchLog,        \* history: per URL of the history, what the fetch effect did for it
  lastResp,        \* history: the response that settled last
  settledSince,    \* history: a GET has settled since the last STORIES_FETCH_INIT
  reloadedFrom,    \* history: <<term>> shown when the page was reloaded, <<>> once it changes
  sort,            \* List: {sortKey, isReverse} (React.useState)
  clicks           \* history: the column headers clicked, in order

vars == <<searchTerm, localStorage, urls, stories, requests, effects, thrown,
          lastAction, orig, removed, fetchLog, lastResp, settledSince,
          reloadedFrom, sort, clicks>>

----------------------------------------------------------------------------
(* Bounds of the model *)

MaxList == 2     \* longest list of a STORIES_FETCH_SUCCESS payload
MaxData == 3     \* longest data of an arbitrary starting reducer state
MaxPage == 1     \* largest page of a payload or of a starting reducer state
MaxUrls == 3     \* longest URL history explored
MaxHistory == 8  \* longest URL history handed to getLastSearches on its own
MaxTerm == 3     \* longest search term built from UrlChars
MaxClicks == 4   \* most clicks on column headers

----------------------------------------------------------------------------
(* Strings *)

API_BASE == <<"h","t","t","p","s",":","/","/","h","n",".","a","l","g","o","l",
              "i","a",".","c","o","m","/","a","p","i","/","v","1">>
API_SEARCH == <<"/","s","e","a","r","c","h">>
PARAM_SEARCH == <<"q","u","e","r","y","=">>
PARAM_PAGE == <<"p","a","g","e","=">>

InitialSearch == <<"R","e","a","c","t">>

Digit(d) == CASE d = 0 -> "0" [] d = 1 -> "1" [] d = 2 -> "2" [] d = 3 -> "3"
              [] d = 4 -> "4" [] d = 5 -> "5" [] d = 6 -> "6" [] d = 7 -> "7"
              [] d = 8 -> "8" [] d = 9 -> "9"

RECURSIVE pageToString(_)
\* decimal rendering of a non-negative integer in a template literal
pageToString(n) == IF n < 10 THEN <<Digit(n)>>
                   ELSE pageToString(n \div 10) \o <<Digit(n % 10)>>

\* String.prototype.lastIndexOf for a one-character needle: 0-based, -1 if absent
lastIndexOf(s, c) ==
  LET hits == {i \in 1..Len(s) : s[i] = c}
  IN  IF hits = {} THEN -1
      ELSE (CHOOSE i \in hits : \A j \in hits : j <= i) - 1

Clamp(i, n) == IF i < 0 THEN 0 ELSE IF i > n THEN n ELSE i

\* String.prototype.substring: arguments clamped to [0, length], swapped if start > end
substring(s, start, end) ==
  LET a == Clamp(start, Len(s))
      b == Clamp(end, Len(s))
      lo == IF a <= b THEN a ELSE b
      hi == IF a <= b THEN b ELSE a
  IN  SubSeq(s, lo + 1, hi)

\* String.prototype.replace with a string pattern: first occurrence only
replace(s, pat, rep) ==
  LET occ == {i \in 1..(Len(s) - Len(pat) + 1) : SubSeq(s, i, i + Len(pat) - 1) = pat}
  IN  IF occ = {} THEN s
      ELSE LET i == CHOOSE k \in occ : \A j \in occ : k <= j
           IN  SubSeq(s, 1, i - 1) \o rep \o SubSeq(s, i + Len(pat), Len(s))

extractSearchTerm(url) ==
  replace(substring(url, lastIndexOf(url, "?") + 1, lastIndexOf(url, "&")),
          PARAM_SEARCH, <<>>)

getUrl(term, page) ==
  API_BASE \o API_SEARCH \o <<"?">> \o PARAM_SEARCH \o term \o <<"&">>
           \o PARAM_PAGE \o pageToString(page)

RECURSIVE reduceTermsKeepsRepeats(_, _, _)
reduceTermsKeepsRepeats(us, i, result) ==
  IF i > Len(us) THEN result
  ELSE reduceTermsKeepsRepeats(us, i + 1, result \o <<extractSearchTerm(us[i])>>)

RECURSIVE reduceTerms(_, _, _)
\* the reduce callback of getLastSearches, applied from index i on
reduceTerms(us, i, result) ==
  IF i > Len(us) THEN result
  ELSE LET term == extractSearchTerm(us[i])
       IN  IF i = 1 THEN reduceTerms(us, i + 1, result \o <<term>>)
           ELSE IF term = result[Len(result)]
                THEN reduceTerms(us, i + 1, result)
                ELSE reduceTerms(us, i + 1, result \o <<term>>)

getLastSearchesLastFive(us) ==
  LET all   == reduceTerms(us, 1, <<>>)
      last5 == SubSeq(all, IF Len(all) > 5 THEN Len(all) - 4 ELSE 1, Len(all))
  IN  SubSeq(last5, 1, Len(last5) - 1)

getLastSearches(us) ==
  LET all   == reduceTerms(us, 1, <<>>)
      last6 == SubSeq(all, IF Len(all) > 6 THEN Len(all) - 5 ELSE 1, Len(all))
  IN  SubSeq(last6, 1, Len(last6) - 1)

----------------------------------------------------------------------------
(* Stories and reducer states *)

\* the stories explored
Story == {[objectID |-> "1", title |-> "x"], [objectID |-> "2", title |-> "y"],
          [objectID |-> "3", title |-> "x"]}

SeqsUpTo(S, n) == UNION {[1..k -> S] : k \in 0..n}

Lists == SeqsUpTo(Story, MaxList)
Pages == 0..MaxPage

initialStories == [data |-> <<>>, page |-> 0, isLoading |-> FALSE, isError |-> FALSE]

AnyStories == [data : SeqsUpTo(Story, MaxData), page : Pages,
               isLoading : BOOLEAN, isError : BOOLEAN]

KnownTypes == {"STORIES_FETCH_INIT", "STORIES_FETCH_SUCCESS",
               "STORIES_FETCH_FAILURE", "REMOVE_STORY"}
OtherTypes == {"STORIES_FETCH_ABORT", ""}

NoAction == [type |-> "NONE"]
NoResp == [at |-> 0, ok |-> FALSE, list |-> <<>>, page |-> 0]

InitAction == [type |-> "STORIES_FETCH_INIT"]
FailureAction == [type |-> "STORIES_FETCH_FAILURE"]
SuccessAction(list, page) ==
  [type |-> "STORIES_FETCH_SUCCESS", payload |-> [list |-> list, page |-> page]]
RemoveAction(item) == [type |-> "REMOVE_STORY", payload |-> item]

Actions ==
  {InitAction, FailureAction}
    \cup {SuccessAction(l, p) : l \in Lists, p \in Pages}
    \cup {RemoveAction(s) : s \in Story}
    \cup {[type |-> t] : t \in OtherTypes}

----------------------------------------------------------------------------
(* storiesReducer: one operator per case of the switch *)

fetchInitDropsData(state) ==
  [state EXCEPT !.isLoading = TRUE, !.isError = FALSE, !.data = <<>>]

fetchInitKeepsError(state) ==
  [state EXCEPT !.isLoading = TRUE]

fetchInitKeepsLoading(state) ==
  [state EXCEPT !.isError = FALSE]

fetchInit(state) ==
  [state EXCEPT !.isLoading = TRUE, !.isError = FALSE]

fetchSuccess(state, payload) ==
  [state EXCEPT !.isLoading = FALSE,
                !.isError = FALSE,
                !.data = IF payload.page = 0
                         THEN payload.list
                         ELSE payload.list \o payload.list,
                !.page = payload.page]

fetchFailureDropsData(state) ==
  [state EXCEPT !.isLoading = FALSE, !.isError = TRUE, !.data = <<>>]

fetchFailureKeepsLoading(state) ==
  [state EXCEPT !.isError = TRUE]

fetchFailure(state) ==
  [state EXCEPT !.isLoading = FALSE, !.isError = TRUE]

removeStoryByTitle(state, payload) ==
  [state EXCEPT !.data = SelectSeq(state.data,
                           LAMBDA story : payload.title # story.title)]

removeStoryStopsLoading(state, payload) ==
  [state EXCEPT !.isLoading = FALSE,
                !.data = SelectSeq(state.data,
                           LAMBDA story : payload.objectID # story.objectID)]

removeStory(state, payload) ==
  [state EXCEPT !.data = SelectSeq(state.data,
                           LAMBDA story : payload.objectID # story.objectID)]

unknownActionIgnored(state) == [threw |-> FALSE, state |-> state]

\* the default case: throw new Error(); no state is returned
unknownAction(state) == [threw |-> TRUE, state |-> state]

Returned(state) == [threw |-> FALSE, state |-> state]

storiesReducer(state, action) ==
  CASE action.type = "STORIES_FETCH_INIT" -> Returned(fetchInit(state))
    [] action.type = "STORIES_FETCH_SUCCESS" -> Returned(fetchSuccess(state, action.payload))
    [] action.type = "STORIES_FETCH_FAILURE" -> Returned(fetchFailure(state))
    [] action.type = "REMOVE_STORY" -> Returned(removeStory(state, action.payload))
    [] OTHER -> unknownAction(state)

----------------------------------------------------------------------------
(* dispatchStories: hand one action to the reducer *)

\* the reducer's effect on stories and thrown, and the history of removals
Dispatch(action) ==
  LET r == storiesReducer(stories, action)
  IN  /\ thrown' = r.threw
      /\ stories' = IF r.threw THEN stories ELSE r.state
      /\ lastAction' = action
      /\ IF r.threw
         THEN UNCHANGED <<orig, removed>>
         ELSE IF action.type = "REMOVE_STORY"
              THEN /\ orig' = orig
                   /\ removed' = removed \cup {action.payload.objectID}
              ELSE /\ orig' = r.state.data
                   /\ removed' = {}

----------------------------------------------------------------------------
(* The reducer on its own: any action applied to any state *)

\* the state List gives to React.useState
initialSort == [sortKey |-> "NONE", isReverse |-> FALSE]

ListVars == <<sort, clicks>>

ListIdle ==
  /\ sort = initialSort
  /\ clicks = <<>>

ReducerIdle ==
  /\ ListIdle
  /\ settledSince = FALSE
  /\ reloadedFrom = <<>>
  /\ searchTerm = InitialSearch
  /\ localStorage = <<>>
  /\ urls = <<>>
  /\ requests = {}
  /\ effects = {}
  /\ thrown = FALSE
  /\ lastAction = NoAction
  /\ removed = {}
  /\ fetchLog = <<>>
  /\ lastResp = NoResp

ReducerInit ==
  /\ stories \in AnyStories
  /\ orig = stories.data
  /\ ReducerIdle

ReducerFromInitial ==
  /\ stories = initialStories
  /\ orig = stories.data
  /\ ReducerIdle

AppVars == <<searchTerm, localStorage, urls, requests, effects, fetchLog, lastResp,
             settledSince, reloadedFrom, sort, clicks>>

Reduce(action) ==
  /\ ~thrown
  /\ Dispatch(action)
  /\ UNCHANGED AppVars

ReducerNext == \E action \in Actions : Reduce(action)

\* any sequence of actions from an arbitrary state
SpecReducer == ReducerInit /\ [][ReducerNext]_vars

\* any sequence of actions from the state useReducer is given
SpecReducerInitial == ReducerFromInitial /\ [][ReducerNext]_vars

----------------------------------------------------------------------------
(* getLastSearches on its own: any URL history *)

\* a search, the second page of the same search, another search
HistoryUrls == {getUrl(<<"a">>, 0), getUrl(<<"a">>, 1), getUrl(<<"b">>, 0)}

HistoryInit ==
  /\ stories = initialStories
  /\ orig = <<>>
  /\ ReducerIdle

Visit(url) ==
  /\ Len(urls) < MaxHistory
  /\ urls' = Append(urls, url)
  /\ UNCHANGED <<searchTerm, localStorage, stories, requests, effects, thrown,
                 lastAction, orig, removed, fetchLog, lastResp, settledSince,
                 reloadedFrom, sort, clicks>>

SpecHistory == HistoryInit /\ [][\E url \in HistoryUrls : Visit(url)]_vars

----------------------------------------------------------------------------
(* getUrl and extractSearchTerm on their own: any term, any page *)

\* a letter and the characters that delimit the query string
UrlChars == {"a", "?", "&", "="}

UrlTerms ==
  SeqsUpTo(UrlChars, MaxTerm)
    \cup {PARAM_SEARCH, PARAM_SEARCH \o <<"a">>, <<"a">> \o PARAM_SEARCH}

UrlInit ==
  /\ stories = initialStories
  /\ orig = <<>>
  /\ ListIdle
  /\ settledSince = FALSE
  /\ reloadedFrom = <<>>
  /\ searchTerm \in UrlTerms
  /\ localStorage = <<>>
  /\ urls = <<>>
  /\ requests = {}
  /\ effects = {}
  /\ thrown = FALSE
  /\ lastAction = NoAction
  /\ removed = {}
  /\ fetchLog = <<>>
  /\ lastResp = NoResp

BuildUrl(page) ==
  /\ urls = <<>>
  /\ urls' = <<getUrl(searchTerm, page)>>
  /\ UNCHANGED <<searchTerm, localStorage, stories, requests, effects, thrown,
                 lastAction, orig, removed, fetchLog, lastResp, settledSince,
                 reloadedFrom, sort, clicks>>

SpecUrl == UrlInit /\ [][\E page \in Pages : BuildUrl(page)]_vars

----------------------------------------------------------------------------
(* The List component's sort state on its own *)

SortKeys == {"TITLE", "AUTHOR", "COMMENT", "POINT"}

sortAfterClickToggles(s, sortKey) ==
  [sortKey |-> sortKey, isReverse |-> ~s.isReverse]

\* the state handleSort sets
sortAfterClick(s, sortKey) ==
  [sortKey |-> sortKey, isReverse |-> (s.sortKey = sortKey /\ ~s.isReverse)]

handleSort(sortKey) ==
  /\ Len(clicks) < MaxClicks
  /\ sort' = sortAfterClick(sort, sortKey)
  /\ clicks' = Append(clicks, sortKey)
  /\ UNCHANGED <<searchTerm, localStorage, urls, stories, requests, effects,
                 thrown, lastAction, orig, removed, fetchLog, lastResp,
                 settledSince, reloadedFrom>>

SpecSort == HistoryInit /\ [][\E sortKey \in SortKeys : handleSort(sortKey)]_vars

----------------------------------------------------------------------------
(* The App component *)

\* what the user can type into the search field
InputValues == {<<>>, <<"a">>}

\* what the browser may hold under 'search' when the component mounts
StoredAtMount == {<<>>} \cup {<<v>> : v \in InputValues}

\* hit lists the API answers with: an empty page, one hit, two hits
Hits == {<<>>,
         <<[objectID |-> "1", title |-> "x"]>>,
         <<[objectID |-> "2", title |-> "y"], [objectID |-> "3", title |-> "x"]>>}

Range(f) == {f[i] : i \in DOMAIN f}
Last(q) == q[Len(q)]

\* localStorage.getItem(key) || initialState: null and '' are both falsy
useSemiPersistentStateInitial(storage, initialState) ==
  IF storage = <<>> THEN initialState
  ELSE IF storage[1] = <<>> THEN initialState
  ELSE storage[1]

\* per URL: GETs issued, INITs dispatched, where the GET stands, terminal
\* events dispatched, and how many of those were not the event of its outcome
NoFetch == [gets |-> 0, inits |-> 0, outcome |-> "none",
            terminals |-> 0, mismatches |-> 0]

Init ==
  /\ localStorage \in StoredAtMount
  /\ searchTerm = useSemiPersistentStateInitial(localStorage, InitialSearch)
  /\ urls = <<getUrl(searchTerm, 0)>>
  /\ stories = initialStories
  /\ requests = {}
  /\ effects = {"persist", "fetch"}
  /\ thrown = FALSE
  /\ lastAction = NoAction
  /\ orig = <<>>
  /\ removed = {}
  /\ fetchLog = <<NoFetch>>
  /\ lastResp = NoResp
  /\ settledSince = FALSE
  /\ reloadedFrom = <<>>
  /\ ListIdle

\* the GET that handleFetchStories issues for the history us
fetchRequestFirstUrl(us) == [at |-> Len(us), url |-> us[1]]

fetchRequest(us) == [at |-> Len(us), url |-> us[Len(us)]]

\* the effects of the last render: the storage write of useSemiPersistentState,
\* then handleFetchStories up to its await
RunEffects ==
  /\ ~thrown
  /\ effects # {}
  /\ effects' = {}
  /\ localStorage' = IF "persist" \in effects THEN <<searchTerm>> ELSE localStorage
  /\ IF "fetch" \in effects
     THEN LET req == fetchRequest(urls)
          IN  /\ Dispatch(InitAction)
              /\ requests' = requests \cup {req}
              /\ fetchLog' = [fetchLog EXCEPT
                                ![req.at].gets = @ + 1,
                                ![req.at].inits = @ + 1,
                                ![req.at].outcome = "pending"]
              /\ lastResp' = NoResp
              /\ settledSince' = FALSE
     ELSE UNCHANGED <<stories, thrown, lastAction, orig, removed,
                      requests, fetchLog, lastResp, settledSince>>
  /\ UNCHANGED <<searchTerm, urls, reloadedFrom, ListVars>>

\* the action handleFetchStories dispatches once its GET has settled
settledActionAlwaysSuccess(req, result) ==
  SuccessAction(result.data.hits, result.data.page)

settledActionStaleFails(req, result) ==
  IF result.ok /\ req.at = Len(urls)
  THEN SuccessAction(result.data.hits, result.data.page)
  ELSE FailureAction

settledAction(req, result) ==
  IF result.ok
  THEN SuccessAction(result.data.hits, result.data.page)
  ELSE FailureAction

\* the page parameter of a request URL, as the API reads it
requestedPage(url) ==
  LET digits == SubSeq(url, lastIndexOf(url, "=") + 2, Len(url))
  IN  CHOOSE p \in 0..MaxUrls : pageToString(p) = digits

\* how a GET can settle: fulfilled with a hit list of the requested page, or rejected
Results(req) ==
  {[ok |-> TRUE, data |-> [hits |-> l, page |-> requestedPage(req.url)]] : l \in Hits}
    \cup {[ok |-> FALSE, data |-> [hits |-> <<>>, page |-> 0]]}

\* a GET settles: the rest of handleFetchStories after the await
Settle(req, result) ==
  LET action == settledAction(req, result)
  IN  /\ ~thrown
      /\ req \in requests
      /\ requests' = requests \ {req}
      /\ Dispatch(action)
      /\ fetchLog' = [fetchLog EXCEPT
           ![req.at].outcome = "settled",
           ![req.at].terminals =
              IF action.type \in {"STORIES_FETCH_SUCCESS", "STORIES_FETCH_FAILURE"}
              THEN @ + 1 ELSE @,
           ![req.at].mismatches =
              IF action.type = (IF result.ok THEN "STORIES_FETCH_SUCCESS"
                                ELSE "STORIES_FETCH_FAILURE")
              THEN @ ELSE @ + 1]
      /\ lastResp' = [at |-> req.at, ok |-> result.ok,
                      list |-> result.data.hits, page |-> result.data.page]
      /\ settledSince' = TRUE
      /\ UNCHANGED <<searchTerm, localStorage, urls, effects, reloadedFrom, ListVars>>

\* handleSearch: setUrls(urls.concat(url)); the new array re-runs the fetch effect
handleSearch(term, page) ==
  /\ Len(urls) < MaxUrls
  /\ urls' = Append(urls, getUrl(term, page))
  /\ fetchLog' = Append(fetchLog, NoFetch)

handleSearchInput(value) ==
  /\ ~thrown
  /\ effects = {}
  /\ value # searchTerm
  /\ searchTerm' = value
  /\ effects' = {"persist"}
  /\ reloadedFrom' = <<>>
  /\ UNCHANGED <<localStorage, urls, stories, requests, thrown, lastAction,
                 orig, removed, fetchLog, lastResp, settledSince, ListVars>>

\* the submit button is disabled while the search term is empty
handleSearchSubmit ==
  /\ ~thrown
  /\ effects = {}
  /\ searchTerm # <<>>
  /\ handleSearch(searchTerm, 0)
  /\ effects' = {"fetch"}
  /\ UNCHANGED <<searchTerm, localStorage, stories, requests, thrown,
                 lastAction, orig, removed, lastResp, settledSince,
                 reloadedFrom, ListVars>>

\* one button per entry of getLastSearches(urls)
handleLastSearch(term) ==
  /\ ~thrown
  /\ effects = {}
  /\ searchTerm' = term
  /\ handleSearch(term, 0)
  /\ effects' = IF term # searchTerm THEN {"persist", "fetch"} ELSE {"fetch"}
  /\ reloadedFrom' = IF term # searchTerm THEN <<>> ELSE reloadedFrom
  /\ UNCHANGED <<localStorage, stories, requests, thrown, lastAction,
                 orig, removed, lastResp, settledSince, ListVars>>

handleMoreFromInput ==
  /\ ~thrown
  /\ effects = {}
  /\ ~stories.isLoading
  /\ handleSearch(searchTerm, stories.page + 1)
  /\ effects' = {"fetch"}
  /\ UNCHANGED <<searchTerm, localStorage, stories, requests, thrown,
                 lastAction, orig, removed, lastResp, settledSince,
                 reloadedFrom, ListVars>>

\* the More button is rendered only while isLoading is false
handleMore ==
  /\ ~thrown
  /\ effects = {}
  /\ ~stories.isLoading
  /\ handleSearch(extractSearchTerm(Last(urls)), stories.page + 1)
  /\ effects' = {"fetch"}
  /\ UNCHANGED <<searchTerm, localStorage, stories, requests, thrown,
                 lastAction, orig, removed, lastResp, settledSince,
                 reloadedFrom, ListVars>>

\* the Dismiss button of a rendered item
handleRemoveStory(item) ==
  /\ ~thrown
  /\ effects = {}
  /\ item \in Range(stories.data)
  /\ Dispatch(RemoveAction(item))
  /\ lastResp' = NoResp
  /\ UNCHANGED <<searchTerm, localStorage, urls, requests, effects, fetchLog,
                 settledSince, reloadedFrom, ListVars>>

Next ==
  \/ RunEffects
  \/ \E req \in requests : \E result \in Results(req) : Settle(req, result)
  \/ \E value \in InputValues : handleSearchInput(value)
  \/ handleSearchSubmit
  \/ \E term \in Range(getLastSearches(urls)) : handleLastSearch(term)
  \/ handleMore
  \/ \E item \in Story : handleRemoveStory(item)

Spec == Init /\ [][Next]_vars

\* some GET in flight settles
SettleSome == \E req \in requests : \E result \in Results(req) : Settle(req, result)

\* the App when scheduled effects do run and every GET does settle
FairSpec == Spec /\ WF_vars(RunEffects) /\ WF_vars(SettleSome)

\* the page is reloaded: every component state is built anew and the GETs in
\* flight are gone; only the browser storage stays
Reload ==
  /\ effects = {}
  /\ reloadedFrom' = <<searchTerm>>
  /\ searchTerm' = useSemiPersistentStateInitial(localStorage, InitialSearch)
  /\ urls' = <<getUrl(searchTerm', 0)>>
  /\ stories' = initialStories
  /\ requests' = {}
  /\ effects' = {"persist", "fetch"}
  /\ thrown' = FALSE
  /\ lastAction' = NoAction
  /\ orig' = <<>>
  /\ removed' = {}
  /\ fetchLog' = <<NoFetch>>
  /\ lastResp' = NoResp
  /\ settledSince' = FALSE
  /\ sort' = initialSort
  /\ clicks' = <<>>
  /\ UNCHANGED localStorage

\* the App with page reloads
SpecReload == Init /\ [][Next \/ Reload]_vars

----------------------------------------------------------------------------
(* Properties of the reducer *)

\* C1: STORIES_FETCH_SUCCESS with payload {list, page} yields isLoading=false,
\* isError=false and page=payload.page; for page 0 the new data is the payload
\* list, for page > 0 it is the prior data followed by the payload list.
C1_FetchSuccessAppendsToPriorData ==
  [][lastAction'.type = "STORIES_FETCH_SUCCESS" =>
       /\ ~thrown'
       /\ stories'.isLoading = FALSE
       /\ stories'.isError = FALSE
       /\ stories'.page = lastAction'.payload.page
       /\ stories'.data = IF lastAction'.payload.page = 0
                          THEN lastAction'.payload.list
                          ELSE stories.data \o lastAction'.payload.list]_vars

\* C2: STORIES_FETCH_INIT yields isLoading=true and isError=false whatever
\* they were before, and leaves data and page unchanged.
C2_FetchInit ==
  [][lastAction'.type = "STORIES_FETCH_INIT" =>
       /\ ~thrown'
       /\ stories'.isLoading = TRUE
       /\ stories'.isError = FALSE
       /\ stories'.data = stories.data
       /\ stories'.page = stories.page]_vars

C2_Witness ==
  /\ lastAction.type = "STORIES_FETCH_INIT"
  /\ stories.isLoading /\ ~stories.isError
  /\ stories.data # <<>> /\ stories.page > 0

\* C3: STORIES_FETCH_FAILURE yields isLoading=false and isError=true and
\* leaves data and page exactly as they were.
C3_FetchFailure ==
  [][lastAction'.type = "STORIES_FETCH_FAILURE" =>
       /\ ~thrown'
       /\ stories'.isLoading = FALSE
       /\ stories'.isError = TRUE
       /\ stories'.data = stories.data
       /\ stories'.page = stories.page]_vars

C3_Witness ==
  /\ lastAction.type = "STORIES_FETCH_FAILURE"
  /\ ~stories.isLoading /\ stories.isError
  /\ stories.data # <<>> /\ stories.page > 0

NotRemoved(story) == story.objectID \notin removed

\* C4: after any sequence of REMOVE_STORY actions the data holds no story
\* with a removed objectID, and holds every other story of the original
\* data in the original relative order.
C4_RemoveSequence ==
  /\ \A i \in 1..Len(stories.data) : stories.data[i].objectID \notin removed
  /\ stories.data = SelectSeq(orig, NotRemoved)

C4_Witness ==
  /\ lastAction.type = "REMOVE_STORY"
  /\ Cardinality(removed) >= 2
  /\ stories.data # <<>>
  /\ Len(stories.data) < Len(orig)

\* C5: REMOVE_STORY changes only data: page, isLoading and isError are as
\* before, also while a fetch is in flight or after a failure.
C5_RemoveFrame ==
  [][lastAction'.type = "REMOVE_STORY" =>
       /\ ~thrown'
       /\ stories'.page = stories.page
       /\ stories'.isLoading = stories.isLoading
       /\ stories'.isError = stories.isError]_vars

C5_Witness ==
  /\ lastAction.type = "REMOVE_STORY"
  /\ stories.isLoading
  /\ Len(stories.data) < Len(orig)

\* C6: from the initial state, under any sequence of reducer actions,
\* isLoading and isError are never both true.
C6_LoadingErrorExclusive == ~(stories.isLoading /\ stories.isError)

C6_Witness ==
  /\ lastAction.type = "STORIES_FETCH_FAILURE"
  /\ stories.isError /\ ~stories.isLoading
  /\ stories.data # <<>>

\* C7: an action of an unrecognised type makes the reducer throw and yields
\* no next state; it is never silently ignored.
C7_UnknownActionThrows ==
  [][lastAction'.type \notin KnownTypes => thrown' /\ stories' = stories]_vars

C7_Witness ==
  /\ thrown
  /\ lastAction.type \in OtherTypes

----------------------------------------------------------------------------
(* Properties of the fetch trigger *)

\* C8: for each URL of the history the fetch trigger issues exactly one GET,
\* to the URL that was last when it ran, dispatches STORIES_FETCH_INIT with
\* it, and dispatches exactly one terminal event once the GET has settled:
\* STORIES_FETCH_SUCCESS if it was fulfilled, STORIES_FETCH_FAILURE if not.
C8_OneGetOneTerminalEvent ==
  /\ Len(fetchLog) = Len(urls)
  /\ \A n \in 1..Len(urls) :
       LET e == fetchLog[n]
       IN  /\ (e.outcome = "none") <=> (n = Len(urls) /\ "fetch" \in effects)
           /\ e.outcome = "none" =>
                e.gets = 0 /\ e.inits = 0 /\ e.terminals = 0
           /\ e.outcome # "none" =>
                e.gets = 1 /\ e.inits = 1
           /\ e.outcome = "pending" =>
                /\ e.terminals = 0
                /\ [at |-> n, url |-> urls[n]] \in requests
           /\ e.outcome = "settled" =>
                /\ e.terminals = 1 /\ e.mismatches = 0
                /\ \A r \in requests : r.at # n

C8_Witness ==
  /\ Len(urls) = 3
  /\ fetchLog[1].outcome = "settled"
  /\ fetchLog[2].outcome = "settled"
  /\ fetchLog[3].outcome = "pending"
  /\ lastResp.at = 2 /\ ~lastResp.ok
  /\ stories.isError
  /\ stories.data # <<>>

\* C9 as stated: at any moment at most one fetch request is in flight.
C9_AtMostOneInFlight == Cardinality(requests) <= 1

\* C9 as amended: at most one request is in flight per URL of the history,
\* each for the URL at its place in the history; several can be in flight
\* at once.
C9_OneInFlightPerUrl ==
  /\ \A r \in requests : r.at \in 1..Len(urls) /\ r.url = urls[r.at]
  /\ \A r1, r2 \in requests : r1.at = r2.at => r1 = r2
  /\ Cardinality(requests) <= Len(urls)

C9_Witness ==
  /\ Cardinality(requests) >= 2
  /\ \E r1, r2 \in requests : r1.url # r2.url

IsSuffix(t, q) ==
  /\ Len(t) <= Len(q)
  /\ SubSeq(q, Len(q) - Len(t) + 1, Len(q)) = t

\* C10: responses are applied in the order they settle, so isError, page
\* and data are those of the response that settled last, whether or not it
\* answers the newest URL.
C10_LastResolvedWins ==
  lastResp.at > 0 =>
    /\ stories.isError = ~lastResp.ok
    /\ lastResp.ok =>
         /\ stories.page = lastResp.page
         /\ IsSuffix(lastResp.list, stories.data)
         /\ lastResp.page = 0 => stories.data = lastResp.list

C10_Witness ==
  /\ requests = {}
  /\ effects = {}
  /\ lastResp.at > 0
  /\ lastResp.at < Len(urls)
  /\ fetchLog[Len(urls)].outcome = "settled"
  /\ lastResp.ok
  /\ ~stories.isError
  /\ stories.data = lastResp.list
  /\ stories.data # <<>>

----------------------------------------------------------------------------
(* Properties of the search history *)

TermsOf(us) == [i \in 1..Len(us) |-> extractSearchTerm(us[i])]

RECURSIVE CollapseRuns(_)
\* one entry per run of adjacent equal entries
CollapseRuns(ts) ==
  IF Len(ts) <= 1 THEN ts
  ELSE IF ts[1] = ts[2] THEN CollapseRuns(Tail(ts))
       ELSE <<ts[1]>> \o CollapseRuns(Tail(ts))

\* the at most five entries before the last one
FiveBeforeLast(c) ==
  IF Len(c) = 0 THEN <<>>
  ELSE SubSeq(c, IF Len(c) > 6 THEN Len(c) - 5 ELSE 1, Len(c) - 1)

\* C11: getLastSearches yields the terms of the URLs in order, runs of
\* adjacent equal terms collapsed, the final term dropped, and at most the
\* five terms before it kept; never more than five entries, never two equal
\* adjacent entries.
C11_LastSearches ==
  LET result == getLastSearches(urls)
  IN  /\ result = FiveBeforeLast(CollapseRuns(TermsOf(urls)))
      /\ Len(result) <= 5
      /\ \A i \in 1..(Len(result) - 1) : result[i] # result[i + 1]

C11_Witness ==
  /\ Len(urls) = 8
  /\ Len(CollapseRuns(TermsOf(urls))) = 7
  /\ Len(getLastSearches(urls)) = 5

\* the history of C12: a search for a, the same search again, a search for b
C12_History == <<getUrl(<<"a">>, 0), getUrl(<<"a">>, 0), getUrl(<<"b">>, 0)>>

\* C12 as stated: for the history [a, a, b] getLastSearches yields [].
C12_YieldsEmpty == urls = C12_History => getLastSearches(urls) = <<>>

\* C12 as amended: for the history [a, a, b] getLastSearches yields [a].
C12_YieldsA == urls = C12_History => getLastSearches(urls) = <<<<"a">>>>

C12_Witness == urls = C12_History

----------------------------------------------------------------------------
(* Properties of the persisted search term and of the displayed data *)

\* C13: after a page reload the search term is the value it had before the
\* reload, for every string including the empty one.
C13_TermSurvivesReload ==
  reloadedFrom # <<>> => searchTerm = reloadedFrom[1]

\* C14: no two entries of stories.data have the same objectID (the hit list
\* of every API response has pairwise distinct objectIDs).
C14_UniqueObjectIDs ==
  \A i, j \in 1..Len(stories.data) :
    stories.data[i].objectID = stories.data[j].objectID => i = j

----------------------------------------------------------------------------
(* Properties of the loading flag *)

\* C15: if every GET settles and the URL stops changing, the App reaches
\* isLoading=false and stays there.
C15_EventuallyNotLoading == <>[](~stories.isLoading)

C15_Witness ==
  /\ Len(urls) = MaxUrls
  /\ \A n \in 1..Len(urls) : fetchLog[n].outcome = "settled"
  /\ requests = {}
  /\ effects = {}
  /\ ~stories.isLoading

\* C16 as stated: whenever a request is outstanding, isLoading is true.
C16_LoadingWhileInFlight == requests # {} => stories.isLoading

\* C16 as amended: whenever a request is outstanding and no request has
\* settled since the latest request was issued, isLoading is true.
C16_LoadingUntilSettled ==
  (requests # {} /\ ~settledSince) => stories.isLoading

C16_Witness ==
  /\ Cardinality(requests) >= 2
  /\ ~settledSince
  /\ stories.isLoading

\* C17: More is taken only while isLoading is false; it appends exactly one
\* URL, for the term of the last URL of the history and page stories.page + 1,
\* and leaves the earlier URLs as they are. (More is the step that appends a
\* URL for a page other than 0.)
C17_More ==
  [][(Len(urls') > Len(urls) /\ requestedPage(Last(urls')) > 0) =>
       /\ ~stories.isLoading
       /\ Len(urls') = Len(urls) + 1
       /\ SubSeq(urls', 1, Len(urls)) = urls
       /\ extractSearchTerm(Last(urls')) = extractSearchTerm(Last(urls))
       /\ requestedPage(Last(urls')) = stories.page + 1]_vars

C17_Witness ==
  /\ Len(urls) >= 2
  /\ requestedPage(Last(urls)) > 0
  /\ extractSearchTerm(Last(urls)) = extractSearchTerm(urls[Len(urls) - 1])
  /\ searchTerm # extractSearchTerm(Last(urls))

----------------------------------------------------------------------------
(* Properties of the URL round trip and of the sort state *)

\* C18: extractSearchTerm(getUrl(t, p)) = t for every term t and page p,
\* also for terms that contain '?', '&' or 'query='.
C18_RoundTrip == urls # <<>> => extractSearchTerm(urls[1]) = searchTerm

RECURSIVE TrailingRun(_)
\* the number of equal entries at the end of a non-empty sequence
TrailingRun(cs) ==
  IF Len(cs) = 1 THEN 1
  ELSE IF cs[Len(cs) - 1] = cs[Len(cs)]
       THEN 1 + TrailingRun(SubSeq(cs, 1, Len(cs) - 1))
       ELSE 1

\* C19: the sort state starts as {NONE, false}; after any clicks sortKey is
\* the column clicked last, and isReverse alternates over repeated clicks on
\* one column, starting from false at the first click on it.
C19_SortState ==
  IF clicks = <<>>
  THEN sort = initialSort
  ELSE /\ sort.sortKey = clicks[Len(clicks)]
       /\ sort.isReverse = (TrailingRun(clicks) % 2 = 0)

C19_Witness ==
  /\ Len(clicks) >= 3
  /\ clicks[Len(clicks)] = clicks[Len(clicks) - 1]
  /\ clicks[Len(clicks) - 2] # clicks[Len(clicks)]
  /\ sort.isReverse

====
